---- MODULE Spec2Model ----
(***************************************************************************)
(* The heart animation (duy15309/heart-animation) as a state machine.      *)
(*                                                                         *)
(* The repository holds three variants of the same page script:            *)
(*   "main"  src/assets/js/main.js   (the rebuilt, simplified script)      *)
(*   "p0"    src/unnamed/part_000    (optimized script, with cleanup)      *)
(*   "p1"    src/unnamed/part_001    (optimized script, with dispose)      *)
(* The variant is fixed by Init; every handler is one action.              *)
(*                                                                         *)
(* Numbers are exact fixed-point integers:                                 *)
(*   rest-mesh and spark-origin coordinates   unit 1/100                   *)
(*   beat value                               unit 1/80                    *)
(*   noise value                              unit 1/2                     *)
(*   scale factors                            numerators over 6400         *)
(*   candidate / live coordinates             unit 1/640000                *)
(*   Math.random draws                        unit 1/100                   *)
(*   spark jitter (rand) and the depth band   unit 1/10000                 *)
(*   time                                     milliseconds                 *)
(***************************************************************************)
EXTENDS Integers, Sequences, FiniteSets, TLC

VARIABLES
    variant,        \* which script runs: "main", "p0" or "p1"
    reducedMotion,  \* CONFIG.REDUCED_MOTION (the media query, read at load)
    introShown,     \* the intro question is still on screen
    yesClicks,      \* clicks on Yes so far
    pendingStarts,  \* setTimeout callbacks of handleYesClick not yet run
    started,        \* number of completed scene set-ups (renderer, geometry ...)
    pendingLoads,   \* OBJLoader.load calls whose callback has not run yet
    heart,          \* this.heart is set
    originHeart,    \* this.originHeart (<<>> while null)
    vs,             \* heart.geometry.attributes.position.array (<<>> while no heart)
    needsUpdate,    \* the position attribute's dirty flag
    sampler,        \* this.sampler is built
    spikes,         \* this.spikes
    positions,      \* this.positions (<<>> while null)
    colors,         \* this.colors    (<<>> while null)
    posAttr,        \* the "position" attribute of the particle geometry
    colorAttr,      \* the "color" attribute of the particle geometry
    idxTrace,       \* per spark of the last pass over the current sparks: posIdx
                    \* after it, the layers it appended and the beat value of
                    \* its update (<<>>: no such pass)
    colorIdx,       \* colorIdx at the end of the last updateParticles pass
    beat,           \* the a field of the beat object
    beatRef,        \* this.beat still references the beat object
    tlCount,        \* gsap timelines created
    tlPhase,        \* "none", "RISING", "FALLING" or "DELAY"
    tlStep,         \* ticks into the current tween
    isAnimating,    \* this.isAnimating
    lastRenderTime, \* this.lastRenderTime
    now,            \* the host clock (performance.now, rAF timestamps)
    rafLoops,       \* requestAnimationFrame loops with a callback scheduled
    animLoop,       \* a renderer.setAnimationLoop callback is installed
    keyListeners,   \* keydown listeners that call onKeyDown
    hidden,         \* document.hidden
    errorShown,     \* the error display is visible
    retry,          \* what the error display's retry button does: "none", "load", "reload"
    retries,        \* clicks on the retry button that started a load
    disposed,       \* dispose has run
    resumed,        \* the page has become visible and no frame callback has run since
    noClickCount,   \* this.noClickCount
    noLabel,        \* index in noMessages of the label on the No button (-1: the
                    \* label of the page markup, which is not in the list)
    audio,          \* this.audio: "none", "paused" or "playing"
    audioLoop,      \* audio.loop
    loopOff,        \* the L key has been pressed an odd number of times on this
                    \* audio element: the user has asked for the loop to be off
    replays         \* times the track has been started over at its end

vars == << variant, reducedMotion, introShown, yesClicks, pendingStarts, started,
           pendingLoads, heart, originHeart, vs, needsUpdate, sampler, spikes,
           positions, colors, posAttr, colorAttr, idxTrace, colorIdx, beat,
           beatRef, tlCount, tlPhase, tlStep, isAnimating, lastRenderTime, now,
           rafLoops, animLoop, keyListeners, hidden, errorShown, retry, retries,
           disposed, resumed, noClickCount, noLabel, audio, audioLoop, loopOff,
           replays >>

----------------------------------------------------------------------------
(* Bounds of the model *)

\* sparks created by initParticles (CONFIG.PARTICLE_COUNT is 10000 in the code)
ParticleCount == 2
\* vertices of the loaded heart mesh
NumVerts == 3
\* the clock stops advancing here (ms)
MaxTime == 16
\* gsap ticks per tween
TweenSteps == 2
\* clicks on Yes
MaxYesClicks == 1

Variants == {"main", "p0", "p1"}
Optimized == {"p0", "p1"}

\* the clock's granularity (ms)
TickMs == 8
\* clicks on the retry button of the error display
MaxRetries == 1

----------------------------------------------------------------------------
(* Configuration (CONFIG) in the fixed-point units above *)

\* BEAT_MAX_VALUE: 0.5, in 1/80
BEAT_MAX_VALUE == 40
\* FRAME_SKIP_THRESHOLD: 16 ms
FRAME_SKIP_THRESHOLD == 16
\* MAX_Z * RATE_Z = 0.23 * 0.5 = 0.115, in 1/10000
MAX_Z_RATE_Z == 1150
\* PARTICLE_RANDOM_FACTOR: 0.03; a draw d/100 gives rand = 3*d in 1/10000
PARTICLE_RANDOM_FACTOR == 3
\* NOISE_FREQUENCY: 500
NOISE_FREQUENCY == 500
\* NOISE_SCALE * NOISE_AMPLITUDE = 1.5 * 0.15 = 0.225; with noise in 1/2 and
\* beat in 1/80 the product noise * 0.225 * beat is 9 * n * b / 6400
NOISE_SCALE_AMPLITUDE == 9
\* denominator of every scale factor: noise in 1/2, beat in 1/80, 0.225 = 9/40
FactorDen == 2 * 80 * 40
\* one unit of 1/10000 in units of 1/640000 (1/100 times 1/FactorDen)
BandUnit == FactorDen \div 100

\* the palettes, as RGB bytes
Palette(v) ==
    IF v = "main"
    THEN << <<255, 212, 238>>, <<255, 119, 252>>, <<255, 23, 117>> >>
    ELSE << <<255, 212, 238>>, <<255, 119, 252>>, <<255, 119, 174>>, <<255, 23, 117>> >>

----------------------------------------------------------------------------
(* Arithmetic helpers *)

\* a store into a Float32Array rounds to the nearest representable value; the
\* model's float grid has FloatQuantum units of 1/640000 between neighbours
FloatQuantum == 4

Fround(v) ==
    IF v >= 0 THEN ((v + FloatQuantum \div 2) \div FloatQuantum) * FloatQuantum
              ELSE -((((-v) + FloatQuantum \div 2) \div FloatQuantum) * FloatQuantum)

\* SimplexNoise.noise4D: a deterministic function of its four inputs with
\* values in [-1, 1] (here -2 .. 2 halves), driven by a fixed permutation table
NoiseTable == << 0, 1, -2, 2, -1, 1, -1 >>

Noise4D(x, y, z, w) ==
    NoiseTable[((3 * x + 5 * y + 7 * z + 11 * w) % Len(NoiseTable)) + 1]

----------------------------------------------------------------------------
(* The mesh asset, the surface sampler and Math.random *)

\* the vertices of heart_2.obj as the loader delivers them (OBJ units)
RawVertexTable == << <<1, -3, 10>>, <<-2, -4, 8>>, <<2, 3, 9>>, <<0, -5, 11>> >>

RawVertex(i) ==
    IF i <= Len(RawVertexTable) THEN RawVertexTable[i] ELSE << i, -i, 10 + i >>

\* setupHeartGeometry: rotateX(-PI/2) maps (x, y, z) to (x, z, -y); scale by
\* HEART_SCALE 0.04 (4 units of 1/100 per OBJ unit); translate y by -0.4
TransformVertex(v) == << 4 * v[1], 4 * v[3] - 40, -4 * v[2] >>

\* the flat position array read before setupHeartGeometry has run
FlatMeshUntransformed ==
    [k \in 1..(3 * NumVerts) |-> RawVertex(((k - 1) \div 3) + 1)[((k - 1) % 3) + 1]]

\* the flat position array of the transformed geometry: x1, y1, z1, x2, ...
FlatMesh ==
    [k \in 1..(3 * NumVerts) |->
        TransformVertex(RawVertex(((k - 1) \div 3) + 1))[((k - 1) % 3) + 1]]

VertexAt(arr, i) == << arr[3 * i - 2], arr[3 * i - 1], arr[3 * i] >>

\* One spark's random inputs: the surface point MeshSurfaceSampler.sample
\* returns (a corner of the mesh, by vertex number) and the two Math.random
\* draws of the SparkPoint constructor (colour, jitter), in 1/100.
DrawTable ==
    << [v |-> 1, c |-> 0,  r |-> 99],
       [v |-> 2, c |-> 99, r |-> 99],
       [v |-> 3, c |-> 50, r |-> 50] >>

\* the draws of one run of initParticles: the random stream from position seed
SparkDraws(seed) ==
    [i \in 1..ParticleCount |-> DrawTable[((seed + i - 2) % Len(DrawTable)) + 1]]

----------------------------------------------------------------------------
(* SparkPoint *)

\* constructor(sampler, palette, simplex, pos)
SparkPoint(v, arr, draw) ==
    [ pos   |-> VertexAt(arr, draw.v),
      color |-> Palette(v)[((draw.c * Len(Palette(v))) \div 100) + 1],
      rand  |-> draw.r * PARTICLE_RANDOM_FACTOR,
      one   |-> << >>,
      two   |-> << >> ]

Scaled(p, k) == << p[1] * k, p[2] * k, p[3] * k >>

\* noise4D(pos * 1, 0.1) + 1.5, in halves
SparkNoise(p) == Noise4D(10 * p[1], 10 * p[2], 10 * p[3], 100000) + 3

\* noise4D(pos * NOISE_FREQUENCY, 1) + 1, in halves
SparkNoise2(p) ==
    Noise4D(10 * NOISE_FREQUENCY * p[1], 10 * NOISE_FREQUENCY * p[2],
            10 * NOISE_FREQUENCY * p[3], 1000000) + 2

\* 1.01 + noise * NOISE_SCALE_AMPLITUDE * beat.a, over FactorDen
OneFactor(p, b) == 6464 + NOISE_SCALE_AMPLITUDE * SparkNoise(p) * b

\* part_000: 1.01 + noise2 * NOISE_SCALE_AMPLITUDE * beat.a
\* part_001: 1 + noise2 * (beat.a + 0.3) - beat.a * 1.2
TwoFactor(v, p, b) ==
    IF v = "p0"
    THEN 6464 + NOISE_SCALE_AMPLITUDE * SparkNoise2(p) * b
    ELSE 6400 + 40 * SparkNoise2(p) * (b + 24) - 96 * b

\* update with a call counter folded into the first candidate: the result
\* depends on whether the spark was updated before
SparkUpdateCounting(v, s, b) ==
    [s EXCEPT !.one = Scaled(s.pos, OneFactor(s.pos, b)
                                    + (IF s.one = << >> THEN 0 ELSE 1)),
              !.two = Scaled(s.pos, TwoFactor(v, s.pos, b))]

\* SparkPoint.update(beat)
SparkUpdate(v, s, b) ==
    [s EXCEPT !.one = Scaled(s.pos, OneFactor(s.pos, b)),
              !.two = Scaled(s.pos, TwoFactor(v, s.pos, b))]

----------------------------------------------------------------------------
(* updateParticles *)

\* three stores buf[n++] = a, b, c into a typed array (0-based n); a store
\* past the end of a typed array is dropped silently
Store3(buf, n, a, b, c) ==
    [k \in 1..Len(buf) |->
        IF k = n + 1 THEN a ELSE IF k = n + 2 THEN b ELSE IF k = n + 3 THEN c ELSE buf[k]]

\* the band of the test, in 1/640000
Band(k, rand) == BandUnit * (MAX_Z_RATE_Z + k * rand)

\* first layer: MAX_Z_RATE_Z + rand > one.z && one.z > -MAX_Z_RATE_Z - rand
AcceptOneWide(s) == Band(2, s.rand) > s.one[3] /\ s.one[3] > -Band(2, s.rand)

AcceptOne(s) == Band(1, s.rand) > s.one[3] /\ s.one[3] > -Band(1, s.rand)

\* second layer: MAX_Z_RATE_Z + rand * 2 > one.z && one.z > -MAX_Z_RATE_Z - rand * 2
AcceptTwoOwn(s) == Band(2, s.rand) > s.two[3] /\ s.two[3] > -Band(2, s.rand)

\* second layer tested against the band without any jitter
AcceptTwoNarrow(s) == Band(0, s.rand) > s.one[3] /\ s.one[3] > -Band(0, s.rand)

AcceptTwo(s) == Band(2, s.rand) > s.one[3] /\ s.one[3] > -Band(2, s.rand)

\* the body of one if: three position floats and three colour floats appended
\* (layer names the if, for the record of what the pass appended)
PackLayerShort(st, ok, p, c, layer) ==
    IF ok
    THEN [st EXCEPT
            !.positions = Store3(@, st.posIdx, Fround(p[1]), Fround(p[2]), Fround(p[3])),
            !.colors    = Store3(@, st.colorIdx, c[1], c[2], c[3]),
            !.posIdx    = @ + 2,
            !.colorIdx  = @ + 3,
            !.layers    = Append(@, layer)]
    ELSE st

PackLayer(st, ok, p, c, layer) ==
    IF ok
    THEN [st EXCEPT
            !.positions = Store3(@, st.posIdx, Fround(p[1]), Fround(p[2]), Fround(p[3])),
            !.colors    = Store3(@, st.colorIdx, c[1], c[2], c[3]),
            !.posIdx    = @ + 3,
            !.colorIdx  = @ + 3,
            !.layers    = Append(@, layer)]
    ELSE st

\* the two layers of one updated spike
PackSpark(st, s) ==
    PackLayer(PackLayer(st, AcceptOne(s), s.one, s.color, "one"),
              AcceptTwo(s), s.two, s.color, "two")

\* the end of the loop body: the updated spike stays in this.spikes; the
\* record of the pass gets posIdx, the layers this spike appended and the beat
\* value its update was called with
Repacked(t, s, b) ==
    [t EXCEPT !.spikes = Append(@, s),
              !.trace  = Append(@, [idx |-> t.posIdx, layers |-> t.layers,
                                    beat |-> b]),
              !.layers = << >>]

\* the loop body for one spike, on the accumulated state st
PackOne(v, st, s0, b) ==
    Repacked(PackSpark(st, SparkUpdate(v, s0, b)), SparkUpdate(v, s0, b), b)

RECURSIVE PackFrom(_, _, _, _, _)
PackFrom(v, st, spks, i, b) ==
    IF i > Len(spks) THEN st
    ELSE PackFrom(v, PackOne(v, st, spks[i], b), spks, i + 1, b)

\* the two setAttribute calls: the attributes are subarray(0, posIdx) and
\* subarray(0, colorIdx)
setAttributeWhole(st) ==
    [ spikes    |-> st.spikes,
      positions |-> st.positions,
      colors    |-> st.colors,
      posAttr   |-> st.positions,
      colorAttr |-> st.colors,
      trace     |-> st.trace,
      colorIdx  |-> st.colorIdx ]

setAttribute(st) ==
    [ spikes    |-> st.spikes,
      positions |-> st.positions,
      colors    |-> st.colors,
      posAttr   |-> SubSeq(st.positions, 1, st.posIdx),
      colorAttr |-> SubSeq(st.colors, 1, st.colorIdx),
      trace     |-> st.trace,
      colorIdx  |-> st.colorIdx ]

\* the whole pass: the loop, then the two setAttribute calls
updateParticles(v, spks, posBuf, colBuf, b) ==
    setAttribute(PackFrom(v, [ spikes |-> << >>, positions |-> posBuf,
                               colors |-> colBuf, posIdx |-> 0, colorIdx |-> 0,
                               layers |-> << >>, trace |-> << >> ],
                          spks, 1, b))

----------------------------------------------------------------------------
(* The per-frame mesh update *)

\* part_000 / part_001: scale = (noise4D(rest * NOISE_SCALE, time * T) + 1)
\*                              * NOISE_SCALE_AMPLITUDE * beat
\* T is 0.000625 in part_000 and 0.0005 in part_001
MeshNoise(v, p, time) ==
    Noise4D(15 * p[1], 15 * p[2], 15 * p[3],
            time * (IF v = "p1" THEN 500 ELSE 625))

OptimizedScale(v, p, time, b) ==
    NOISE_SCALE_AMPLITUDE * (MeshNoise(v, p, time) + 2) * b

\* main.js: scale = 1 + n * (0.15 * beat.a), n = noise4D(rest * 1.5, time)
MainScale(v, p, time, b) == FactorDen + 6 * MeshNoise(v, p, time) * b

VertexScale(v, p, time, b) ==
    IF v = "main" THEN MainScale(v, p, time, b) ELSE OptimizedScale(v, p, time, b)

\* the vertex loop scaling the live array in place (vs[i] *= scale) instead of
\* writing rest * scale
updateHeartGeometryInPlace(v, live, rest, time, b) ==
    [k \in 1..Len(live) |->
        Fround((live[k] \div FactorDen)
               * VertexScale(v, VertexAt(rest, ((k - 1) \div 3) + 1), time, b))]

\* the vertex loop stopping one vertex early
updateHeartGeometrySkipLast(v, live, rest, time, b) ==
    [k \in 1..Len(live) |->
        IF k > Len(live) - 3 THEN live[k]
        ELSE Fround(rest[k] * VertexScale(v, VertexAt(rest, ((k - 1) \div 3) + 1), time, b))]

\* updateHeartGeometry(time) and the vertex loop of main.js animate: every
\* index of the live array is written from the rest array
updateHeartGeometry(v, live, rest, time, b) ==
    [k \in 1..Len(live) |->
        Fround(rest[k] * VertexScale(v, VertexAt(rest, ((k - 1) \div 3) + 1), time, b))]

----------------------------------------------------------------------------
(* The state after the script has loaded and the constructor has run *)

ZeroBuffer == [k \in 1..(6 * ParticleCount) |-> 0]

\* listeners that call handleYesClick: part_000 runs init() in the constructor
\* and again from the DOMContentLoaded handler
YesListeners(v) == IF v = "p0" THEN 2 ELSE 1

\* the entries of this.noMessages
NoMessagesLen(v) == IF v = "p0" THEN 7 ELSE 4

\* the label of the No button before any click: the first entry of noMessages
\* in part_000 ("Không"), the text of the page markup elsewhere
NoLabelInit(v) == IF v = "p0" THEN 0 ELSE -1

Init ==
    /\ variant \in Variants
    /\ reducedMotion \in BOOLEAN
    /\ introShown = TRUE
    /\ yesClicks = 0
    /\ pendingStarts = 0
    /\ started = 0
    /\ pendingLoads = 0
    /\ heart = FALSE
    /\ originHeart = << >>
    /\ vs = << >>
    /\ needsUpdate = FALSE
    /\ sampler = FALSE
    /\ spikes = << >>
    /\ positions = (IF variant = "p1" THEN ZeroBuffer ELSE << >>)
    /\ colors = (IF variant = "p1" THEN ZeroBuffer ELSE << >>)
    /\ posAttr = << >>
    /\ colorAttr = << >>
    /\ idxTrace = << >>
    /\ colorIdx = 0
    /\ beat = 0
    /\ beatRef = TRUE
    /\ tlCount = 0
    /\ tlPhase = "none"
    /\ tlStep = 0
    /\ isAnimating = FALSE
    /\ lastRenderTime = 0
    /\ now = 0
    /\ rafLoops = 0
    /\ animLoop = FALSE
    /\ keyListeners = (IF variant = "p1" THEN 1 ELSE 0)
    /\ hidden = FALSE
    /\ errorShown = FALSE
    /\ retry = "none"
    /\ retries = 0
    /\ disposed = FALSE
    /\ resumed = FALSE
    /\ noClickCount = 0
    /\ noLabel = NoLabelInit(variant)
    /\ audio = "none"
    /\ audioLoop = FALSE
    /\ loopOff = FALSE
    /\ replays = 0

----------------------------------------------------------------------------
(* The intro question and the scene set-up *)

\* the page is still there (no handler runs once beforeunload has torn it
\* down; only the gsap timeline, which dispose leaves alone, keeps running)
\* and no timer of a click on Yes is due: the callbacks that the
\* listeners of one click scheduled expire together and run back to back,
\* before any other task
Ready == ~disposed /\ pendingStarts % YesListeners(variant) = 0

handleYesClick ==
    /\ Ready
    /\ introShown
    /\ yesClicks < MaxYesClicks
    /\ yesClicks' = yesClicks + 1
    /\ pendingStarts' = pendingStarts + YesListeners(variant)
    /\ UNCHANGED << variant, reducedMotion, introShown, started, pendingLoads, heart,
                    originHeart, vs, needsUpdate, sampler, spikes, positions, colors,
                    posAttr, colorAttr, idxTrace, colorIdx, beat, beatRef, tlCount,
                    tlPhase, tlStep, isAnimating, lastRenderTime, now, rafLoops,
                    animLoop, keyListeners, hidden, errorShown, retry, retries,
                    disposed,
                    resumed,
                    noClickCount, noLabel, audio, audioLoop, loopOff, replays >>

\* setupAnimation: the value of beat.a after it
setupAnimationBeatDivided(v, rm, b) ==
    IF rm /\ v \in Optimized THEN (BEAT_MAX_VALUE * 10) \div 3 ELSE b

setupAnimationBeat(v, rm, b) ==
    IF rm /\ v \in Optimized THEN (BEAT_MAX_VALUE * 3) \div 10 ELSE b

\* setupAnimation: whether it creates the gsap timeline
setupAnimationTimeline(v, rm) == ~(rm /\ v \in Optimized)

\* the setTimeout callback of handleYesClick: hides the intro and runs
\* startMainAnimation (main.js, part_000) or startAnimationFlow (part_001)
startMainAnimation ==
    /\ ~disposed
    /\ pendingStarts > 0
    /\ pendingStarts' = pendingStarts - 1
    /\ introShown' = FALSE
    /\ started' = started + 1
    /\ keyListeners' = keyListeners + 1
    /\ positions' = (IF variant = "p0" THEN ZeroBuffer ELSE positions)
    /\ colors' = (IF variant = "p0" THEN ZeroBuffer ELSE colors)
    /\ posAttr' = << >>
    /\ colorAttr' = << >>
    /\ idxTrace' = << >>
    /\ colorIdx' = 0
    /\ beat' = setupAnimationBeat(variant, reducedMotion, beat)
    /\ IF setupAnimationTimeline(variant, reducedMotion)
       THEN /\ tlCount' = tlCount + 1
            /\ tlPhase' = "RISING"
            /\ tlStep' = 0
       ELSE UNCHANGED << tlCount, tlPhase, tlStep >>
    /\ pendingLoads' = pendingLoads + 1
    /\ audio' = "paused"
    /\ audioLoop' = TRUE
    /\ loopOff' = FALSE
    /\ UNCHANGED << variant, reducedMotion, yesClicks, heart, originHeart, vs,
                    needsUpdate, sampler, spikes, beatRef, isAnimating,
                    lastRenderTime, now, rafLoops, animLoop, hidden, errorShown,
                    retry, retries, disposed,
                    resumed, noClickCount, noLabel, replays >>

----------------------------------------------------------------------------
(* The beat oscillator (the gsap timeline of setupAnimation) *)

\* power2.in from 0 to BEAT_MAX_VALUE, k ticks into the tween
RisingValue(k) == (BEAT_MAX_VALUE * k * k) \div (TweenSteps * TweenSteps)

\* power3.out from BEAT_MAX_VALUE to 0, k ticks into the tween
FallingValue(k) ==
    (BEAT_MAX_VALUE * (TweenSteps - k) * (TweenSteps - k) * (TweenSteps - k))
        \div (TweenSteps * TweenSteps * TweenSteps)

\* the timeline without repeat: -1: it ends after the first FALLING tween
BeatTickOnce ==
    /\ pendingStarts % YesListeners(variant) = 0
    /\ tlPhase # "none"
    /\ \/ /\ tlPhase = "RISING"
          /\ beat' = RisingValue(tlStep + 1)
          /\ IF tlStep + 1 = TweenSteps
             THEN tlPhase' = "FALLING" /\ tlStep' = 0
             ELSE tlPhase' = "RISING" /\ tlStep' = tlStep + 1
       \/ /\ tlPhase = "FALLING"
          /\ beat' = FallingValue(tlStep + 1)
          /\ IF tlStep + 1 = TweenSteps
             THEN tlPhase' = "DELAY" /\ tlStep' = 0
             ELSE tlPhase' = "FALLING" /\ tlStep' = tlStep + 1
       \/ /\ tlPhase = "DELAY"
          /\ beat' = beat
          /\ tlPhase' = "none"
          /\ tlStep' = 0
    /\ UNCHANGED << variant, reducedMotion, introShown, yesClicks, pendingStarts,
                    started, pendingLoads, heart, originHeart, vs, needsUpdate,
                    sampler, spikes, positions, colors, posAttr, colorAttr, idxTrace,
                    colorIdx, beatRef, tlCount, isAnimating, lastRenderTime, now,
                    rafLoops, animLoop, keyListeners, hidden, errorShown, retry,
                    retries, disposed,
                    resumed,
                    noClickCount, noLabel, audio, audioLoop, loopOff, replays >>

\* one tick of the gsap ticker on the timeline. dispose does not kill the
\* timeline, so it keeps ticking on the beat object after teardown; like every
\* other task it waits for the timers of a click on Yes to have run
BeatTick ==
    /\ pendingStarts % YesListeners(variant) = 0
    /\ tlPhase # "none"
    /\ \/ /\ tlPhase = "RISING"
          /\ beat' = RisingValue(tlStep + 1)
          /\ IF tlStep + 1 = TweenSteps
             THEN tlPhase' = "FALLING" /\ tlStep' = 0
             ELSE tlPhase' = "RISING" /\ tlStep' = tlStep + 1
       \/ /\ tlPhase = "FALLING"
          /\ beat' = FallingValue(tlStep + 1)
          /\ IF tlStep + 1 = TweenSteps
             THEN tlPhase' = "DELAY" /\ tlStep' = 0
             ELSE tlPhase' = "FALLING" /\ tlStep' = tlStep + 1
       \/ /\ tlPhase = "DELAY"
          /\ beat' = RisingValue(0)
          /\ tlPhase' = "RISING"
          /\ tlStep' = 0
    /\ UNCHANGED << variant, reducedMotion, introShown, yesClicks, pendingStarts,
                    started, pendingLoads, heart, originHeart, vs, needsUpdate,
                    sampler, spikes, positions, colors, posAttr, colorAttr, idxTrace,
                    colorIdx, beatRef, tlCount, isAnimating, lastRenderTime, now,
                    rafLoops, animLoop, keyListeners, hidden, errorShown, retry,
                    retries, disposed,
                    resumed,
                    noClickCount, noLabel, audio, audioLoop, loopOff, replays >>

----------------------------------------------------------------------------
(* Loading the model *)

\* initParticles with the loop bound off by one
initParticlesOneMore(v, arr, ds) ==
    IF v = "main" THEN << >>
    ELSE [i \in 1..(ParticleCount + 1) |->
            SparkPoint(v, arr, ds[((i - 1) % ParticleCount) + 1])]

\* initParticles with every spark keeping the scratch vector this.pos itself
\* instead of a clone: all origins are the point sampled last
initParticlesSharedPos(v, arr, ds) ==
    IF v = "main" THEN << >>
    ELSE [i \in 1..ParticleCount |->
            [SparkPoint(v, arr, ds[i]) EXCEPT
                !.pos = VertexAt(arr, ds[ParticleCount].v)]]

\* initParticles: part_000 / part_001 empty this.spikes and push one
\* SparkPoint per particle; main.js samples and picks a colour per particle
\* and keeps nothing
initParticles(v, arr, ds) ==
    IF v = "main" THEN << >>
    ELSE [i \in 1..ParticleCount |-> SparkPoint(v, arr, ds[i])]

\* the position array of the loaded geometry, in the unit of the live
\* coordinates (1/640000)
LiveArray(arr) == [k \in 1..Len(arr) |-> arr[k] * FactorDen]

\* the snapshot Array.from(heart.geometry.attributes.position.array): a new
\* array with the values of the geometry's array (here in 1/100)
Snapshot(arr) == arr

\* this.originHeart once a frame has written the live array in place: the
\* snapshot is an array of its own, so the writes do not reach it
CapturedAlias(rest, live) == live

Captured(rest, live) == rest

\* the success callback of OBJLoader.load
onHeartLoaded ==
    /\ Ready
    /\ pendingLoads > 0
    /\ pendingLoads' = pendingLoads - 1
    /\ heart' = TRUE
    /\ sampler' = TRUE
    /\ \E seed \in 1..Len(DrawTable) :
           spikes' = initParticles(variant, FlatMesh, SparkDraws(seed))
    /\ idxTrace' = << >>
    /\ colorIdx' = 0
    /\ isAnimating' = TRUE
    /\ rafLoops' = rafLoops + 1
    /\ IF variant = "main"
       THEN \* animate() runs once inside the callback
            /\ vs' = updateHeartGeometry(variant, LiveArray(FlatMesh),
                                        Snapshot(FlatMesh), now, beat)
            /\ originHeart' = Captured(Snapshot(FlatMesh), vs')
            /\ needsUpdate' = TRUE
            /\ UNCHANGED << lastRenderTime, errorShown >>
       ELSE /\ vs' = LiveArray(FlatMesh)
            /\ originHeart' = Snapshot(FlatMesh)
            /\ needsUpdate' = FALSE
            /\ lastRenderTime' = now
            /\ errorShown' = FALSE
    /\ audio' = "playing"
    /\ UNCHANGED << variant, reducedMotion, introShown, yesClicks, pendingStarts,
                    started, positions, colors, posAttr, colorAttr, beat, beatRef,
                    tlCount, tlPhase, tlStep, now, animLoop, keyListeners, hidden,
                    retry, retries, disposed,
                    resumed, noClickCount, noLabel, audioLoop, loopOff, replays >>

\* an error callback that substitutes a default mesh for the failed download
onHeartErrorSubstitutes ==
    /\ Ready
    /\ pendingLoads > 0
    /\ pendingLoads' = pendingLoads - 1
    /\ errorShown' = TRUE
    /\ retry' = (IF variant \in Optimized THEN "load" ELSE "none")
    /\ heart' = TRUE
    /\ UNCHANGED << variant, reducedMotion, introShown, yesClicks, pendingStarts,
                    started, originHeart, vs, needsUpdate, sampler, spikes,
                    positions, colors, posAttr, colorAttr, idxTrace, colorIdx, beat,
                    beatRef, tlCount, tlPhase, tlStep, isAnimating, lastRenderTime,
                    now, rafLoops, animLoop, keyListeners, hidden, retries, disposed,
                    resumed,
                    noClickCount, noLabel, audio, audioLoop, loopOff, replays >>

\* the error callback of OBJLoader.load
onHeartError ==
    /\ Ready
    /\ pendingLoads > 0
    /\ pendingLoads' = pendingLoads - 1
    /\ errorShown' = TRUE
    /\ retry' = (IF variant \in Optimized THEN "load" ELSE "none")
    /\ UNCHANGED << variant, reducedMotion, introShown, yesClicks, pendingStarts,
                    started, heart, originHeart, vs, needsUpdate, sampler, spikes,
                    positions, colors, posAttr, colorAttr, idxTrace, colorIdx, beat,
                    beatRef, tlCount, tlPhase, tlStep, isAnimating, lastRenderTime,
                    now, rafLoops, animLoop, keyListeners, hidden, retries, disposed,
                    resumed,
                    noClickCount, noLabel, audio, audioLoop, loopOff, replays >>

\* a click on the retry button while it is bound to loadHeartModel
retryLoad ==
    /\ Ready
    /\ errorShown
    /\ retry = "load"
    /\ retries < MaxRetries
    /\ retries' = retries + 1
    /\ pendingLoads' = pendingLoads + 1
    /\ UNCHANGED << variant, reducedMotion, introShown, yesClicks, pendingStarts,
                    started, heart, originHeart, vs, needsUpdate, sampler, spikes,
                    positions, colors, posAttr, colorAttr, idxTrace, colorIdx, beat,
                    beatRef, tlCount, tlPhase, tlStep, isAnimating, lastRenderTime,
                    now, rafLoops, animLoop, keyListeners, hidden, errorShown, retry,
                    disposed,
                    resumed,
                    noClickCount, noLabel, audio, audioLoop, loopOff, replays >>

----------------------------------------------------------------------------
(* Frames *)

\* render(time) without the early return on document.hidden
RenderRunsWhileHidden == isAnimating /\ heart

\* render(time) gets past its two early returns
RenderRuns == isAnimating /\ heart /\ ~hidden

\* the particle state that updateParticles leaves
SetParticles(up) ==
    /\ spikes' = up.spikes
    /\ positions' = up.positions
    /\ colors' = up.colors
    /\ posAttr' = up.posAttr
    /\ colorAttr' = up.colorAttr
    /\ idxTrace' = up.trace
    /\ colorIdx' = up.colorIdx

\* render with a timeline tick between its two updates: the mesh update reads
\* another beat value than the sparks did
ApplyRenderTornBeat(time) ==
    /\ SetParticles(updateParticles(variant, spikes, positions, colors, beat))
    /\ vs' = updateHeartGeometry(variant, vs, originHeart, time, BEAT_MAX_VALUE - beat)
    /\ originHeart' = Captured(originHeart, vs')
    /\ needsUpdate' = TRUE

\* the state render(time) leaves: updateParticles, then updateHeartGeometry
\* render that feeds the frame time into the spark update: the candidates of
\* a spark move with the clock as well as with the beat
ApplyRenderTimedSparks(time) ==
    /\ SetParticles(updateParticles(variant, spikes, positions, colors,
                                    beat + (time \div TickMs)))
    /\ vs' = updateHeartGeometry(variant, vs, originHeart, time, beat)
    /\ originHeart' = Captured(originHeart, vs')
    /\ needsUpdate' = TRUE

ApplyRender(time) ==
    /\ SetParticles(updateParticles(variant, spikes, positions, colors, beat))
    /\ vs' = updateHeartGeometry(variant, vs, originHeart, time, beat)
    /\ originHeart' = Captured(originHeart, vs')
    /\ needsUpdate' = TRUE

\* a skipped frame that still runs the mesh update (a partial update)
SkipRenderMeshOnly ==
    /\ vs' = updateHeartGeometry(variant, vs, originHeart, now, beat)
    /\ needsUpdate' = TRUE
    /\ UNCHANGED << spikes, positions, colors, posAttr, colorAttr, idxTrace,
                    colorIdx, originHeart >>

\* no frame work: render is not called, or returns at once
SkipRender ==
    UNCHANGED << spikes, positions, colors, posAttr, colorAttr, idxTrace, colorIdx,
                 vs, originHeart, needsUpdate >>

\* the animate closure with a catch block that only logs: the loop goes on
animateSwallowsError ==
    /\ Ready
    /\ variant \in Optimized
    /\ rafLoops > 0
    /\ \/ /\ ~isAnimating
          /\ rafLoops' = rafLoops - 1
          /\ SkipRender
          /\ UNCHANGED << isAnimating, lastRenderTime, errorShown, retry >>
       \/ /\ isAnimating
          /\ now - lastRenderTime < FRAME_SKIP_THRESHOLD
          /\ SkipRender
          /\ UNCHANGED << rafLoops, isAnimating, lastRenderTime, errorShown, retry >>
       \/ /\ isAnimating
          /\ now - lastRenderTime >= FRAME_SKIP_THRESHOLD
          /\ IF RenderRuns THEN ApplyRender(now) ELSE SkipRender
          /\ lastRenderTime' = now
          /\ UNCHANGED << rafLoops, isAnimating, errorShown, retry >>
       \/ \* renderer.render throws at the end of render
          /\ isAnimating
          /\ now - lastRenderTime >= FRAME_SKIP_THRESHOLD
          /\ RenderRuns
          /\ ApplyRender(now)
          /\ UNCHANGED << isAnimating, errorShown, retry, rafLoops, lastRenderTime >>
    /\ resumed' = FALSE
    /\ UNCHANGED << noClickCount, noLabel, audio, audioLoop, loopOff, replays >>
    /\ UNCHANGED << variant, reducedMotion, introShown, yesClicks, pendingStarts,
                    started, pendingLoads, heart, sampler, beat, beatRef, tlCount,
                    tlPhase, tlStep, now, animLoop, keyListeners, hidden, retries,
                    disposed >>

\* the animate closure of startAnimation (part_000, part_001), one callback
animate ==
    /\ Ready
    /\ variant \in Optimized
    /\ rafLoops > 0
    /\ \/ /\ ~isAnimating
          /\ rafLoops' = rafLoops - 1
          /\ SkipRender
          /\ UNCHANGED << isAnimating, lastRenderTime, errorShown, retry >>
       \/ /\ isAnimating
          /\ now - lastRenderTime < FRAME_SKIP_THRESHOLD
          /\ SkipRender
          /\ UNCHANGED << rafLoops, isAnimating, lastRenderTime, errorShown, retry >>
       \/ /\ isAnimating
          /\ now - lastRenderTime >= FRAME_SKIP_THRESHOLD
          /\ IF RenderRuns THEN ApplyRender(now) ELSE SkipRender
          /\ lastRenderTime' = now
          /\ UNCHANGED << rafLoops, isAnimating, errorShown, retry >>
       \/ \* renderer.render throws at the end of render
          /\ isAnimating
          /\ now - lastRenderTime >= FRAME_SKIP_THRESHOLD
          /\ RenderRuns
          /\ ApplyRender(now)
          /\ isAnimating' = FALSE
          /\ errorShown' = TRUE
          /\ retry' = "reload"
          /\ rafLoops' = rafLoops - 1
          /\ UNCHANGED lastRenderTime
    /\ resumed' = FALSE
    /\ UNCHANGED << noClickCount, noLabel, audio, audioLoop, loopOff, replays >>
    /\ UNCHANGED << variant, reducedMotion, introShown, yesClicks, pendingStarts,
                    started, pendingLoads, heart, sampler, beat, beatRef, tlCount,
                    tlPhase, tlStep, now, animLoop, keyListeners, hidden, retries,
                    disposed >>

\* main.js animate(), one callback: no frame skipping, no particle update
animateMain ==
    /\ Ready
    /\ variant = "main"
    /\ rafLoops > 0
    /\ isAnimating
    /\ vs' = updateHeartGeometry(variant, vs, originHeart, now, beat)
    /\ originHeart' = Captured(originHeart, vs')
    /\ needsUpdate' = TRUE
    /\ resumed' = FALSE
    /\ UNCHANGED << noClickCount, noLabel, audio, audioLoop, loopOff, replays >>
    /\ UNCHANGED << variant, reducedMotion, introShown, yesClicks, pendingStarts,
                    started, pendingLoads, heart, sampler, spikes,
                    positions, colors, posAttr, colorAttr, idxTrace, colorIdx, beat,
                    beatRef, tlCount, tlPhase, tlStep, isAnimating, lastRenderTime,
                    now, rafLoops, animLoop, keyListeners, hidden, errorShown, retry,
                    retries, disposed >>

\* the callback installed by renderer.setAnimationLoop: render(time)
animationLoop ==
    /\ Ready
    /\ variant \in Optimized
    /\ animLoop
    /\ \/ /\ IF RenderRuns THEN ApplyRender(now) ELSE SkipRender
          /\ UNCHANGED << animLoop, errorShown, retry >>
       \/ \* renderer.render throws: three.js requests no further frame, the
          \* window error handler shows the error
          /\ RenderRuns
          /\ ApplyRender(now)
          /\ animLoop' = FALSE
          /\ errorShown' = TRUE
          /\ retry' = "reload"
    /\ resumed' = FALSE
    /\ UNCHANGED << noClickCount, noLabel, audio, audioLoop, loopOff, replays >>
    /\ UNCHANGED << variant, reducedMotion, introShown, yesClicks, pendingStarts,
                    started, pendingLoads, heart, sampler, beat, beatRef, tlCount,
                    tlPhase, tlStep, isAnimating, lastRenderTime, now, rafLoops,
                    keyListeners, hidden, retries, disposed >>

----------------------------------------------------------------------------
(* Keys, visibility, the clock, teardown *)

\* isAnimating after n runs of the Space case of onKeyDown
Toggled(a, n) == IF n % 2 = 1 THEN ~a ELSE a

\* one Space key press: every registered listener runs onKeyDown
onKeyDownSpace ==
    /\ Ready
    /\ variant \in Optimized
    /\ keyListeners > 0
    /\ isAnimating' = Toggled(isAnimating, keyListeners)
    /\ IF started > 0
       THEN /\ animLoop' = Toggled(isAnimating, keyListeners)
            /\ UNCHANGED << errorShown, retry >>
       ELSE \* this.renderer is null: TypeError, the window error handler shows it
            /\ errorShown' = TRUE
            /\ retry' = "reload"
            /\ UNCHANGED animLoop
    /\ UNCHANGED << variant, reducedMotion, introShown, yesClicks, pendingStarts,
                    started, pendingLoads, heart, originHeart, vs, needsUpdate,
                    sampler, spikes, positions, colors, posAttr, colorAttr, idxTrace,
                    colorIdx, beat, beatRef, tlCount, tlPhase, tlStep, lastRenderTime,
                    now, rafLoops, keyListeners, hidden, retries, disposed,
                    resumed,
                    noClickCount, noLabel, audio, audioLoop, loopOff, replays >>

\* the page is hidden or shown (document.hidden flips); the scripts' own
\* visibilitychange listeners only announce it
visibilitychange ==
    /\ Ready
    /\ hidden' = ~hidden
    /\ resumed' = hidden
    /\ UNCHANGED << noClickCount, noLabel, audio, audioLoop, loopOff, replays >>
    /\ UNCHANGED << variant, reducedMotion, introShown, yesClicks, pendingStarts,
                    started, pendingLoads, heart, originHeart, vs, needsUpdate,
                    sampler, spikes, positions, colors, posAttr, colorAttr, idxTrace,
                    colorIdx, beat, beatRef, tlCount, tlPhase, tlStep, isAnimating,
                    lastRenderTime, now, rafLoops, animLoop, keyListeners, errorShown,
                    retry, retries, disposed >>

Tick ==
    /\ Ready
    /\ now + TickMs <= MaxTime
    /\ now' = now + TickMs
    /\ UNCHANGED << variant, reducedMotion, introShown, yesClicks, pendingStarts,
                    started, pendingLoads, heart, originHeart, vs, needsUpdate,
                    sampler, spikes, positions, colors, posAttr, colorAttr, idxTrace,
                    colorIdx, beat, beatRef, tlCount, tlPhase, tlStep, isAnimating,
                    lastRenderTime, rafLoops, animLoop, keyListeners, hidden,
                    errorShown, retry, retries, disposed,
                    resumed,
                    noClickCount, noLabel, audio, audioLoop, loopOff, replays >>

\* beforeunload in part_001: dispose (part_000 never stores the instance in
\* window.heartAnimation, so its cleanup does not run; main.js has none).
\* The page is going away afterwards: no handler of the app runs once
\* disposed is set.
dispose ==
    /\ Ready
    /\ variant = "p1"
    /\ disposed' = TRUE
    /\ isAnimating' = FALSE
    /\ heart' = FALSE
    /\ sampler' = FALSE
    /\ originHeart' = << >>
    /\ vs' = << >>
    /\ spikes' = << >>
    /\ positions' = << >>
    /\ colors' = << >>
    /\ posAttr' = << >>
    /\ colorAttr' = << >>
    /\ idxTrace' = << >>
    /\ colorIdx' = 0
    /\ beatRef' = FALSE
    /\ keyListeners' = keyListeners - 1
    /\ audio' = "none"
    /\ UNCHANGED << variant, reducedMotion, introShown, yesClicks, pendingStarts,
                    started, pendingLoads, needsUpdate, beat, tlCount, tlPhase,
                    tlStep, lastRenderTime, now, rafLoops, animLoop, hidden,
                    errorShown, retry, retries,
                    resumed, noClickCount, noLabel, audioLoop, loopOff, replays >>

----------------------------------------------------------------------------

Next ==
    \/ handleYesClick
    \/ startMainAnimation
    \/ BeatTick
    \/ onHeartLoaded
    \/ onHeartError
    \/ retryLoad
    \/ animate
    \/ animateMain
    \/ animationLoop
    \/ onKeyDownSpace
    \/ visibilitychange
    \/ Tick
    \/ dispose

Spec == Init /\ [][Next]_vars

----------------------------------------------------------------------------
(* The intro buttons and the music                                         *)
(*                                                                         *)
(* The No button and the audio element share no state with the frame       *)
(* callbacks: PageSpec is the page with its buttons, its keys and its       *)
(* music, without the frame callbacks and the clock.                       *)

\* clicks on No tried by the model
MaxNoClicks == 8

\* ends of the track tried by the model
MaxReplays == 2

\* click listeners on the No button: setupIntroLogic runs once per init()
NoListeners(v) == IF v = "p0" THEN 2 ELSE 1

Min(a, b) == IF a < b THEN a ELSE b

\* handleNoClick, one run, on the pair (noClickCount, label index):
\* part_000 Math.min(noClickCount, length - 1), main.js
\* Math.min(noClickCount - 1, length - 1), both after noClickCount++
handleNoClick(v, st) ==
    [ count |-> st.count + 1,
      label |-> Min(IF v = "main" THEN st.count + 1 - 1 ELSE st.count + 1,
                    NoMessagesLen(v) - 1) ]

\* n runs of handleNoClick, one per listener
RECURSIVE RunNoClick(_, _, _)
RunNoClick(v, st, n) ==
    IF n = 0 THEN st ELSE RunNoClick(v, handleNoClick(v, st), n - 1)

\* part_000 hides the No button once noClickCount exceeds the list
NoHidden == variant = "p0" /\ noClickCount > NoMessagesLen(variant)

\* one click on the No button: every registered listener runs handleNoClick
\* (part_001 has no click handler on No)
NoClick ==
    /\ Ready
    /\ variant \in {"main", "p0"}
    /\ introShown
    /\ ~NoHidden
    /\ noClickCount < MaxNoClicks
    /\ noClickCount' =
          RunNoClick(variant, [count |-> noClickCount, label |-> noLabel],
                     NoListeners(variant)).count
    /\ noLabel' =
          RunNoClick(variant, [count |-> noClickCount, label |-> noLabel],
                     NoListeners(variant)).label
    /\ UNCHANGED << variant, reducedMotion, introShown, yesClicks, pendingStarts,
                    started, pendingLoads, heart, originHeart, vs, needsUpdate,
                    sampler, spikes, positions, colors, posAttr, colorAttr, idxTrace,
                    colorIdx, beat, beatRef, tlCount, tlPhase, tlStep, isAnimating,
                    lastRenderTime, now, rafLoops, animLoop, keyListeners, hidden,
                    errorShown, retry, retries, disposed, resumed, audio, audioLoop,
                    loopOff, replays >>

\* one press of L: every registered listener runs the "l" case of onKeyDown
\* (without an audio element it only shows a notification)
onKeyDownL ==
    /\ Ready
    /\ variant \in Optimized
    /\ keyListeners > 0
    /\ audio # "none"
    /\ audioLoop' = Toggled(audioLoop, keyListeners)
    /\ loopOff' = ~loopOff
    /\ UNCHANGED << variant, reducedMotion, introShown, yesClicks, pendingStarts,
                    started, pendingLoads, heart, originHeart, vs, needsUpdate,
                    sampler, spikes, positions, colors, posAttr, colorAttr, idxTrace,
                    colorIdx, beat, beatRef, tlCount, tlPhase, tlStep, isAnimating,
                    lastRenderTime, now, rafLoops, animLoop, keyListeners, hidden,
                    errorShown, retry, retries, disposed, resumed, noClickCount,
                    noLabel, audio, replays >>

\* one press of M: every registered listener runs the "m" case of onKeyDown,
\* which plays a paused element and pauses a playing one
onKeyDownM ==
    /\ Ready
    /\ keyListeners > 0
    /\ audio # "none"
    /\ audio' = (IF Toggled(audio = "playing", keyListeners)
                 THEN "playing" ELSE "paused")
    /\ UNCHANGED << variant, reducedMotion, introShown, yesClicks, pendingStarts,
                    started, pendingLoads, heart, originHeart, vs, needsUpdate,
                    sampler, spikes, positions, colors, posAttr, colorAttr, idxTrace,
                    colorIdx, beat, beatRef, tlCount, tlPhase, tlStep, isAnimating,
                    lastRenderTime, now, rafLoops, animLoop, keyListeners, hidden,
                    errorShown, retry, retries, disposed, resumed, noClickCount,
                    noLabel, audioLoop, loopOff, replays >>

\* the playing track reaches its end: with loop set the element starts over by
\* itself; without it the element stops and fires "ended", whose handler in
\* part_000 and part_001 sets currentTime = 0 and plays again when loop is
\* false (main.js has no "ended" handler)
trackEnds ==
    /\ Ready
    /\ audio = "playing"
    /\ replays < MaxReplays
    /\ IF audioLoop \/ variant \in Optimized
       THEN audio' = "playing" /\ replays' = replays + 1
       ELSE audio' = "paused" /\ replays' = replays
    /\ UNCHANGED << variant, reducedMotion, introShown, yesClicks, pendingStarts,
                    started, pendingLoads, heart, originHeart, vs, needsUpdate,
                    sampler, spikes, positions, colors, posAttr, colorAttr, idxTrace,
                    colorIdx, beat, beatRef, tlCount, tlPhase, tlStep, isAnimating,
                    lastRenderTime, now, rafLoops, animLoop, keyListeners, hidden,
                    errorShown, retry, retries, disposed, resumed, noClickCount,
                    noLabel, audioLoop, loopOff >>

PageNext ==
    \/ handleYesClick
    \/ startMainAnimation
    \/ onHeartLoaded
    \/ onHeartError
    \/ retryLoad
    \/ NoClick
    \/ onKeyDownL
    \/ onKeyDownM
    \/ trackEnds
    \/ dispose

PageSpec == Init /\ [][PageNext]_vars

----------------------------------------------------------------------------
(* Properties of the particle buffer packer (updateParticles) *)

\* a pass of updateParticles has run over the current sparks
Packed == idxTrace # << >>

\* posIdx before and after spark i of the last pass
IdxBefore(i) == IF i = 1 THEN 0 ELSE idxTrace[i - 1].idx

IdxAfter(i) == idxTrace[i].idx

\* the last pass appended this layer ("one" or "two") of spark i
Appended(i, layer) ==
    \E j \in 1..Len(idxTrace[i].layers) : idxTrace[i].layers[j] = layer

\* z lies strictly inside the depth band widened by k jitters:
\* -D - k * jitter < z < D + k * jitter, D = MAX_Z * RATE_Z
InBand(z, k, jitter) ==
    /\ -(BandUnit * (MAX_Z_RATE_Z + k * jitter)) < z
    /\ z < BandUnit * (MAX_Z_RATE_Z + k * jitter)

\* the three floats of an attribute from 0-based offset at
Slot(arr, at) ==
    IF at + 3 <= Len(arr) THEN << arr[at + 1], arr[at + 2], arr[at + 3] >> ELSE << >>

\* a point as the Float32Array holds it
Rounded(p) == << Fround(p[1]), Fround(p[2]), Fround(p[3]) >>

\* the 0-based offset at which the last pass put layer number j of spark i
LayerOffset(i, j) == IdxBefore(i) + 3 * (j - 1)

C2_FirstLayer ==
    Packed =>
        \A i \in 1..Len(spikes) :
            /\ Appended(i, "one") <=> InBand(spikes[i].one[3], 1, spikes[i].rand)
            /\ Appended(i, "one") =>
                 /\ idxTrace[i].layers[1] = "one"
                 /\ Slot(posAttr, IdxBefore(i)) = Rounded(spikes[i].one)
                 /\ Slot(colorAttr, IdxBefore(i)) = spikes[i].color
            /\ IdxAfter(i) - IdxBefore(i) = 3 * Len(idxTrace[i].layers)

\* a pass that appended one spark's first candidate and dropped another's
\* whose z is outside the band but inside the widened one
C2_Witness ==
    /\ Packed
    /\ \E i \in 1..Len(spikes) : Appended(i, "one")
    /\ \E i \in 1..Len(spikes) :
           /\ ~Appended(i, "one")
           /\ InBand(spikes[i].one[3], 2, spikes[i].rand)

\* C3: in every reachable state the filled length of the positions buffer is
\* a multiple of 3, at most 6 * PARTICLE_COUNT and within the allocated
\* capacity, and each spark of a pass grew it by exactly 0, 3 or 6 floats.
C3_FilledLength ==
    /\ Len(posAttr) % 3 = 0
    /\ Len(posAttr) <= 6 * ParticleCount
    /\ Len(posAttr) <= Len(positions)
    /\ Packed =>
         /\ Len(idxTrace) = Len(spikes)
         /\ IdxAfter(Len(idxTrace)) = Len(posAttr)
         /\ \A i \in 1..Len(spikes) : IdxAfter(i) - IdxBefore(i) \in {0, 3, 6}

\* a pass in which one spark added nothing and another added 3 floats
C3_Witness ==
    /\ Packed
    /\ \E i \in 1..Len(spikes) : IdxAfter(i) - IdxBefore(i) = 0
    /\ \E i \in 1..Len(spikes) : IdxAfter(i) - IdxBefore(i) = 3

\* C4: after every pass the position attribute and the colour attribute hold
\* exactly the floats written during that pass: their lengths are posIdx and
\* colorIdx, which are equal, and every slot is a candidate appended in this
\* pass with its spark's colour (not the buffer capacity, not leftovers).
C4_AttributesArePrefix ==
    Packed =>
        /\ Len(posAttr) = IdxAfter(Len(idxTrace))
        /\ Len(colorAttr) = colorIdx
        /\ Len(posAttr) = Len(colorAttr)
        /\ \A i \in 1..Len(spikes) :
               /\ IdxAfter(i) = LayerOffset(i, Len(idxTrace[i].layers) + 1)
               /\ \A j \in 1..Len(idxTrace[i].layers) :
                      /\ Slot(posAttr, LayerOffset(i, j)) =
                             Rounded(IF idxTrace[i].layers[j] = "one"
                                     THEN spikes[i].one ELSE spikes[i].two)
                      /\ Slot(colorAttr, LayerOffset(i, j)) = spikes[i].color

\* a pass that filled less than the buffer while a float of an earlier pass is
\* still in the buffer behind the written prefix
C4_Witness ==
    /\ Packed
    /\ 0 < Len(posAttr)
    /\ Len(posAttr) < Len(positions)
    /\ \E k \in (Len(posAttr) + 1)..Len(positions) : positions[k] # 0

----------------------------------------------------------------------------
(* Properties of the mesh, the sparks and the beat *)

\* the rest vertex that index k of the flat arrays belongs to
VertexOf(arr, k) == VertexAt(arr, ((k - 1) \div 3) + 1)

\* the scale of section 4.5: (noise4D(rest * S, time * T) + 1) * S * A * beat,
\* over FactorDen (noise in halves)
SpecScale(p, time, b) ==
    NOISE_SCALE_AMPLITUDE * (MeshNoise(variant, p, time) + 2) * b

\* C5: in every variant, a frame that writes the live mesh leaves every live
\* coordinate at rest * scale with scale = (noise + 1) * S * A * beat (so at
\* beat 0 every live coordinate is 0).
C5_ScaleInEveryVariant ==
    [][ (needsUpdate' /\ vs' # vs) =>
            \A k \in 1..Len(vs') :
                vs'[k] = Fround(originHeart'[k]
                                * SpecScale(VertexOf(originHeart', k), now, beat))
      ]_vars

\* C6: with the reduced-motion preference active no timeline is ever created
\* and, once setupAnimation has run, the beat value is 0.3 * BEAT_MAX_VALUE in
\* every state.
C6_ReducedMotionPinsBeat ==
    reducedMotion =>
        /\ tlCount = 0
        /\ tlPhase = "none"
        /\ started > 0 => beat = (3 * BEAT_MAX_VALUE) \div 10

\* C7 as stated: once the spark set has PARTICLE_COUNT elements it has them in
\* every later state, whatever runs, teardown included.
C7_CountForever ==
    [][ Len(spikes) = ParticleCount => Len(spikes') = ParticleCount ]_vars

\* C7 as amended: in part_000 and part_001 the spark set has exactly
\* PARTICLE_COUNT elements in every state from the end of initParticles up to
\* teardown, whatever runs in between (frames, skipped frames, key presses,
\* pause and resume, render errors, a reload of the model); teardown empties it.
C7_CountUntilTeardown ==
    variant \in Optimized =>
        /\ sampler => Len(spikes) = ParticleCount
        /\ ~sampler => Len(spikes) = 0

\* the sparks are all there after frames have run and a render error has
\* stopped the animation
C7_Witness ==
    /\ variant \in Optimized
    /\ Len(spikes) = ParticleCount
    /\ Packed
    /\ errorShown
    /\ ~isAnimating

\* C8: whenever the heart mesh is loaded, originHeart and the live position
\* array have the same length, and a frame that writes the live array writes
\* every index of it (each index holds this frame's value).
C8_SameLengthAllWritten ==
    [][ /\ heart' => Len(originHeart') = Len(vs')
        /\ (needsUpdate' /\ vs' # vs) =>
              \A k \in 1..Len(vs') :
                  vs'[k] = Fround(originHeart'[k]
                                  * VertexScale(variant, VertexOf(originHeart', k),
                                                now, beat))
      ]_vars

\* a frame at beat 0 of an optimized variant has written 0 to every index of
\* the live array
C8_Witness ==
    /\ heart
    /\ needsUpdate
    /\ Len(vs) = Len(originHeart)
    /\ \A k \in 1..Len(vs) : vs[k] = 0
    /\ \E k \in 1..Len(originHeart) : originHeart[k] # 0

\* C9: once captured, originHeart holds the transformed mesh it was captured
\* from in every state, whatever frames have written the live array since.
C9_RestMeshFixed ==
    originHeart # << >> => originHeart = FlatMesh

\* a frame has written the live array away from the rest mesh
C9_Witness ==
    /\ originHeart # << >>
    /\ needsUpdate
    /\ \E k \in 1..Len(vs) : vs[k] # originHeart[k] * FactorDen

\* C10: in every reachable state the beat value lies in [0, BEAT_MAX_VALUE].
C10_BeatInRange ==
    beat \in 0..BEAT_MAX_VALUE

\* the oscillator at its peak while frames run
C10_Witness ==
    /\ beat = BEAT_MAX_VALUE
    /\ tlPhase = "FALLING"
    /\ isAnimating

----------------------------------------------------------------------------
(* The oscillator under fair scheduling *)

\* the gsap ticker runs the timeline on every animation frame for as long as
\* the timeline exists, and a timer set by handleYesClick expires
LiveSpec ==
    /\ Spec
    /\ WF_vars(BeatTick)
    /\ WF_vars(startMainAnimation)

\* C11: without reduced motion every RISING phase is eventually followed by a
\* FALLING phase and every FALLING phase by a later RISING phase; RISING ends
\* at BEAT_MAX_VALUE and goes straight to FALLING, FALLING ends at 0, the
\* repeat delay is entered only from FALLING and left only to RISING, a
\* timeline that exists never ends (no terminal state), and within a phase the
\* value the running timeline has written moves one way only (a timeline that
\* setupAnimation has just created has written nothing yet).
C11_OscillatorCycles ==
    /\ [](~reducedMotion /\ tlPhase = "RISING" => <>(tlPhase = "FALLING"))
    /\ [](~reducedMotion /\ tlPhase = "FALLING" => <>(tlPhase = "RISING"))
    /\ [][ ~reducedMotion =>
             /\ tlPhase # "none" => tlPhase' # "none"
             /\ (tlPhase = "RISING" /\ tlPhase' # "RISING") =>
                    (tlPhase' = "FALLING" /\ beat' = BEAT_MAX_VALUE)
             /\ (tlPhase # "DELAY" /\ tlPhase' = "DELAY") =>
                    (tlPhase = "FALLING" /\ beat' = 0)
             /\ (tlPhase = "DELAY" /\ tlPhase' # "DELAY") => tlPhase' = "RISING"
             /\ (tlPhase = "RISING" /\ tlStep > 0 /\ tlPhase' = "RISING") =>
                    beat' >= beat \/ tlStep' = 0
             /\ (tlPhase = "FALLING" /\ tlPhase' = "FALLING") => beat' <= beat
       ]_vars

\* the oscillator in its repeat delay, a RISING and a FALLING tween behind it
C11_Witness ==
    /\ ~reducedMotion
    /\ tlPhase = "DELAY"
    /\ beat = 0

----------------------------------------------------------------------------
(* Properties of one frame *)

\* this step ran a frame update: it wrote the live mesh or packed the sparks
FrameStep ==
    /\ heart'
    /\ needsUpdate'
    /\ vs' # vs \/ (idxTrace' # idxTrace /\ idxTrace' # << >>)

\* C12: a step that runs a frame update leaves the beat value as it was, and
\* every spark and every vertex it wrote was computed from that one value.
C12_OneBeatPerFrame ==
    [][ FrameStep =>
            /\ beat' = beat
            /\ \A i \in 1..Len(spikes') :
                   spikes'[i] = SparkUpdate(variant, spikes[i], beat)
            /\ \A k \in 1..Len(vs') :
                   vs'[k] = Fround(originHeart'[k]
                                   * VertexScale(variant, VertexOf(originHeart', k),
                                                 now, beat))
      ]_vars

\* a frame has run in the middle of a tween: sparks and mesh both carry the
\* same beat value, which is neither 0 nor the peak
C12_Witness ==
    /\ variant \in Optimized
    /\ Packed
    /\ needsUpdate
    /\ tlPhase \in {"RISING", "FALLING"} /\ tlStep > 0
    /\ 0 < beat /\ beat < BEAT_MAX_VALUE
    /\ \A i \in 1..Len(spikes) : spikes[i] = SparkUpdate(variant, spikes[i], beat)
    /\ \E k \in 1..Len(vs) : vs[k] # 0
    /\ \A k \in 1..Len(vs) :
           vs[k] = Fround(originHeart[k]
                          * VertexScale(variant, VertexOf(originHeart, k), now, beat))

----------------------------------------------------------------------------
(* Properties of the sparks *)

\* spark s has the origin, colour and jitter that the constructor run t gave
SameIdentity(s, t) == s.pos = t.pos /\ s.color = t.color /\ s.rand = t.rand

\* C13: every spark holds the origin, colour and jitter of its own
\* construction (whatever sparks were constructed after it through the shared
\* scratch vector), and no step that keeps the spark set changes the origin,
\* colour or jitter of any spark: a frame changes only the fields one and two.
C13_SparkIdentityFixed ==
    /\ [](spikes # << >> =>
            \E seed \in 1..Len(DrawTable) :
                \A i \in 1..Len(spikes) :
                    SameIdentity(spikes[i],
                                 SparkPoint(variant, FlatMesh, SparkDraws(seed)[i])))
    /\ [][ (spikes # << >> /\ pendingLoads' = pendingLoads /\ ~disposed') =>
              /\ Len(spikes') = Len(spikes)
              /\ \A i \in 1..Len(spikes) :
                     /\ SameIdentity(spikes'[i], spikes[i])
                     /\ DOMAIN spikes'[i] = DOMAIN spikes[i]
       ]_vars

\* sparks with two different origins, moved by a frame at a beat above 0
C13_Witness ==
    /\ Packed
    /\ \E i, j \in 1..Len(spikes) : spikes[i].pos # spikes[j].pos
    /\ \A i \in 1..Len(spikes) :
           /\ spikes[i].one # << >>
           /\ spikes[i].one # Scaled(spikes[i].pos, OneFactor(spikes[i].pos, 0))

\* the beat value that the last update of spark i was called with
UpdateBeat(i) == idxTrace[i].beat

\* C14: the candidates of a spark are a function of its origin and of the
\* beat value of its last update alone, and an update called with the beat
\* value of the previous update leaves both candidates as they were, whatever
\* happened and however much time passed in between.
C14_UpdateDeterministic ==
    /\ [](Packed =>
            \A i \in 1..Len(spikes) :
                /\ spikes[i].one =
                       Scaled(spikes[i].pos, OneFactor(spikes[i].pos, UpdateBeat(i)))
                /\ spikes[i].two =
                       Scaled(spikes[i].pos,
                              TwoFactor(variant, spikes[i].pos, UpdateBeat(i))))
    /\ [][ (Packed /\ Packed' /\ Len(spikes') = Len(spikes)) =>
              \A i \in 1..Len(spikes) :
                  idxTrace'[i].beat = idxTrace[i].beat =>
                      /\ spikes'[i].one = spikes[i].one
                      /\ spikes'[i].two = spikes[i].two
       ]_vars

\* the sparks were updated at a beat above 0 and the clock has moved on since
\* the first frame could run
C14_Witness ==
    /\ Packed
    /\ now > 0
    /\ tlPhase # "none"
    /\ \A i \in 1..Len(spikes) : UpdateBeat(i) = beat /\ beat > 0

----------------------------------------------------------------------------
(* Properties of the mesh displacement update *)

\* a live array of the length of arr with other contents
OtherLive(arr) == [k \in 1..Len(arr) |-> 7 * k]

\* C15: the live mesh a frame leaves is a fixed point of the update for the
\* same time, beat and rest mesh (running it again changes nothing), and it is
\* the mesh the update yields from any other previous contents of the live
\* array.
C15_MeshUpdateIdempotent ==
    [][ FrameStep =>
            /\ updateHeartGeometry(variant, vs', originHeart', now, beat) = vs'
            /\ updateHeartGeometry(variant, OtherLive(vs'), originHeart', now, beat) = vs'
      ]_vars

\* a frame of an optimized variant has displaced the live mesh: it is neither
\* collapsed to 0 nor at rest
C15_Witness ==
    /\ variant \in Optimized
    /\ heart
    /\ needsUpdate
    /\ vs = updateHeartGeometry(variant, vs, originHeart, now, beat)
    /\ \E k \in 1..Len(vs) : vs[k] # 0 /\ vs[k] # originHeart[k] * FactorDen

----------------------------------------------------------------------------
(* Properties of the frame loop *)

\* C16: a callback of the startAnimation loop that finds less than
\* FRAME_SKIP_THRESHOLD since lastRenderTime changes neither the live mesh, the
\* buffers, the attributes, the sparks nor lastRenderTime and leaves the loop
\* scheduled; a callback changes lastRenderTime only to the current time, only
\* at or above the threshold, and only when render returned without throwing
\* (the animation still runs and the loop is still scheduled afterwards).
C16_FrameSkip ==
    [][ /\ (isAnimating /\ now - lastRenderTime < FRAME_SKIP_THRESHOLD /\ animate) =>
              /\ UNCHANGED << vs, needsUpdate, originHeart, spikes, positions,
                              colors, posAttr, colorAttr, lastRenderTime,
                              isAnimating >>
              /\ rafLoops' = rafLoops
        /\ (lastRenderTime' # lastRenderTime /\ animate) =>
              /\ lastRenderTime' = now
              /\ now - lastRenderTime >= FRAME_SKIP_THRESHOLD
              /\ isAnimating /\ isAnimating'
              /\ rafLoops' = rafLoops
              /\ UNCHANGED << errorShown, retry >>
      ]_vars

\* the loop is running on a visible page with a loaded heart, time has passed
\* since startAnimation but less than the threshold, and no frame has run
C16_Witness ==
    /\ variant \in Optimized
    /\ rafLoops > 0
    /\ isAnimating /\ heart /\ ~hidden
    /\ now > lastRenderTime
    /\ now - lastRenderTime < FRAME_SKIP_THRESHOLD
    /\ ~needsUpdate
    /\ idxTrace = << >>

\* a frame callback of an optimized variant runs in this step (the conjuncts
\* before the actions follow from them; they settle most steps at once)
FrameCallback ==
    /\ variant \in Optimized
    /\ rafLoops > 0 \/ animLoop
    /\ UNCHANGED << now, hidden, pendingLoads, pendingStarts, beat, tlStep >>
    /\ animate \/ animationLoop

\* this step performed a full frame update: all sparks packed, the whole live
\* mesh written for the current time and beat
FullFrameUpdate ==
    /\ idxTrace' # << >>
    /\ \A i \in 1..Len(spikes') : spikes'[i] = SparkUpdate(variant, spikes[i], beat)
    /\ needsUpdate'
    /\ vs' = updateHeartGeometry(variant, vs, originHeart, now, beat)

\* a frame callback on the hidden page changes none of the live mesh, the
\* buffers, the attributes and the sparks, and with the animation running it
\* leaves both loops scheduled as they were
HiddenFramesChangeNothing ==
    (hidden /\ FrameCallback) =>
        /\ UNCHANGED << vs, needsUpdate, originHeart, spikes, positions, colors,
                        posAttr, colorAttr >>
        /\ isAnimating => (rafLoops' = rafLoops /\ animLoop' = animLoop)

\* C17 as stated: hidden frames change nothing and keep the loop scheduled,
\* and the first frame callback after the page became visible again performs a
\* full frame update (animation running, heart loaded).
C17_FirstCallbackUpdates ==
    [][ /\ HiddenFramesChangeNothing
        /\ (resumed /\ ~hidden /\ isAnimating /\ heart /\ FrameCallback) =>
              FullFrameUpdate
      ]_vars

\* C17 as amended: hidden frames change nothing and keep the loop scheduled,
\* and the first frame callback after the page became visible again performs a
\* full frame update unless it is a callback of the startAnimation loop that
\* finds less than FRAME_SKIP_THRESHOLD since lastRenderTime: that one is
\* skipped like any other and the loop stays scheduled.
C17_FirstCallbackUpdatesUnlessSkipped ==
    [][ /\ HiddenFramesChangeNothing
        /\ (resumed /\ ~hidden /\ isAnimating /\ heart /\ FrameCallback) =>
              \/ FullFrameUpdate
              \/ /\ animate
                 /\ now - lastRenderTime < FRAME_SKIP_THRESHOLD
                 /\ rafLoops' = rafLoops
                 /\ UNCHANGED << vs, needsUpdate, spikes, positions, colors,
                                 posAttr, colorAttr, lastRenderTime >>
      ]_vars

\* the page was hidden from the start of the loop until the threshold had
\* passed and is visible again: nothing has been updated, and the callback
\* that comes next performs the first frame update
C17_Witness ==
    /\ variant \in Optimized
    /\ resumed /\ ~hidden
    /\ isAnimating /\ heart
    /\ rafLoops > 0
    /\ now - lastRenderTime >= FRAME_SKIP_THRESHOLD
    /\ ~needsUpdate
    /\ idxTrace = << >>

----------------------------------------------------------------------------
(* Properties of the keyboard control *)

\* C18: once the scene is set up, a press of the Space key inverts
\* isAnimating: from running to paused (render returns at once while
\* isAnimating is false), from paused to running with the render loop
\* installed.
C18_SpaceToggles ==
    [][ (variant \in Optimized /\ started > 0 /\ onKeyDownSpace) =>
            /\ isAnimating' = ~isAnimating
            /\ isAnimating' => animLoop'
      ]_vars

----------------------------------------------------------------------------
(* Properties of loading *)

----------------------------------------------------------------------------
(* Errors inside the frame loop *)

\* this step is a callback of the startAnimation loop that got past the frame
\* skip and did not reach the assignment to lastRenderTime: render threw
RenderThrew ==
    /\ variant \in Optimized
    /\ isAnimating
    /\ rafLoops > 0
    /\ now - lastRenderTime >= FRAME_SKIP_THRESHOLD
    /\ lastRenderTime' = lastRenderTime
    /\ UNCHANGED << now, hidden, pendingLoads, pendingStarts, beat, disposed >>
    /\ animate

\* C21: when render throws inside the loop started by startAnimation,
\* isAnimating becomes false, the error display is shown (its button reloads
\* the page), lastRenderTime is not advanced and that loop has no callback
\* scheduled any more; a callback of that loop clears isAnimating in no other
\* case.
C21_RenderErrorStopsLoop ==
    /\ [][ RenderThrew =>
              /\ ~isAnimating'
              /\ errorShown'
              /\ retry' = "reload"
              /\ lastRenderTime' = lastRenderTime
              /\ rafLoops' = rafLoops - 1
        ]_vars
    /\ [][ (isAnimating /\ ~isAnimating' /\
            UNCHANGED << now, hidden, pendingLoads, pendingStarts, beat, disposed >> /\
            animate) => RenderThrew
        ]_vars

\* the loop has stopped on a render error: a frame was written, the error is
\* on display, lastRenderTime is older than the frame
C21_Witness ==
    /\ variant \in Optimized
    /\ heart
    /\ ~isAnimating
    /\ errorShown
    /\ retry = "reload"
    /\ needsUpdate
    /\ now - lastRenderTime >= FRAME_SKIP_THRESHOLD

----------------------------------------------------------------------------
(* The sparks of main.js *)

\* C22: in main.js, once onHeartLoaded has completed there is one spark per
\* particle, and each holds a sampled surface point and a palette colour.
C22_MainHoldsSparks ==
    (variant = "main" /\ heart) =>
        /\ Len(spikes) = ParticleCount
        /\ \A i \in 1..Len(spikes) :
               /\ \E k \in 1..NumVerts : spikes[i].pos = VertexAt(originHeart, k)
               /\ \E c \in 1..Len(Palette(variant)) : spikes[i].color = Palette(variant)[c]

----------------------------------------------------------------------------
(* The two layers of one spark *)

\* C23: after every pass, for every spark: if the first candidate was
\* appended the second was appended too; the spark appended nothing, the
\* second candidate alone (3 floats) or the first and then the second
\* (6 floats); and an appended first candidate is directly followed in the
\* position attribute by the second candidate of the same spark.
C23_FirstImpliesSecond ==
    Packed =>
        \A i \in 1..Len(spikes) :
            /\ Appended(i, "one") => Appended(i, "two")
            /\ idxTrace[i].layers \in { << >>, << "two" >>, << "one", "two" >> }
            /\ IdxAfter(i) - IdxBefore(i) = 3 * Len(idxTrace[i].layers)
            /\ Appended(i, "one") =>
                 /\ Slot(posAttr, IdxBefore(i)) = Rounded(spikes[i].one)
                 /\ Slot(posAttr, IdxBefore(i) + 3) = Rounded(spikes[i].two)

\* a pass in which one spark appended both candidates and another appended
\* the second candidate alone
C23_Witness ==
    /\ Packed
    /\ \E i \in 1..Len(spikes) : idxTrace[i].layers = << "one", "two" >>
    /\ \E i \in 1..Len(spikes) : idxTrace[i].layers = << "two" >>

----------------------------------------------------------------------------
(* One scene per session *)

\* C24: over the whole session the scene is set up at most once: at most one
\* renderer (one run of the scene set-up), one beat timeline and one frame
\* loop exist, and no second model load is started by a Yes click.
C24_OneInitPerSession ==
    /\ started <= 1
    /\ tlCount <= 1
    /\ rafLoops <= 1
    /\ pendingLoads <= 1

----------------------------------------------------------------------------
(* Frame drivers *)

\* C25: the requestAnimationFrame loop of startAnimation and the callback
\* installed by renderer.setAnimationLoop are never both scheduling render:
\* no state has a live loop of startAnimation (a callback scheduled while
\* isAnimating holds) together with an installed setAnimationLoop callback.
C25_OneFrameDriver ==
    ~(isAnimating /\ rafLoops > 0 /\ animLoop)

----------------------------------------------------------------------------
(* Keydown listeners *)

\* C26: a keydown event runs onKeyDown exactly once: in part_001 in every
\* state up to teardown, in part_000 in every state after the scene set-up
\* (before it part_000 listens to no key), whatever number of Yes clicks
\* came before.
C26_OneKeydownListener ==
    /\ (variant = "p1" /\ ~disposed) => keyListeners = 1
    /\ (variant = "p0" /\ started > 0) => keyListeners = 1

----------------------------------------------------------------------------
(* Events before Yes has been answered *)

\* C27: a keydown event delivered before the scene is set up (no renderer, no
\* camera yet) leaves isAnimating as it was and does not bring up the error
\* display.
C27_EarlyKeydownHarmless ==
    [][ (started = 0 /\ ~errorShown /\ UNCHANGED << now, pendingStarts, hidden >>
          /\ onKeyDownSpace) =>
            /\ isAnimating' = isAnimating
            /\ ~errorShown'
      ]_vars

----------------------------------------------------------------------------
(* The particle output and the clock *)

\* this step is a frame callback that ran updateParticles
PackStep ==
    /\ variant \in Optimized
    /\ heart
    /\ isAnimating
    /\ ~hidden
    /\ idxTrace' # << >>
    /\ needsUpdate'
    /\ UNCHANGED << now, hidden, pendingLoads, pendingStarts, beat, tlStep >>
    /\ \/ animLoop /\ animationLoop
       \/ /\ rafLoops > 0
          /\ now - lastRenderTime >= FRAME_SKIP_THRESHOLD
          /\ animate

\* C28: the attributes a frame leaves are those of a pass over the sparks with
\* the beat value alone, whatever the time of the frame; and a frame whose
\* beat value is that of the pass before it leaves the filled length and the
\* contents of both attributes as that pass left them.
C28_OutputDependsOnBeatOnly ==
    [][ PackStep =>
          /\ posAttr' = updateParticles(variant, spikes, positions, colors, beat).posAttr
          /\ colorAttr' = updateParticles(variant, spikes, positions, colors, beat).colorAttr
          /\ (Packed /\ idxTrace[1].beat = beat) =>
                /\ Len(posAttr') = Len(posAttr)
                /\ posAttr' = posAttr
                /\ colorAttr' = colorAttr
                /\ idxTrace' = idxTrace
      ]_vars

\* under reduced motion a frame has run at another time than the present one
\* (the live mesh is not the mesh of this time), the beat is the one that
\* frame used, and the installed callback is due to run the next frame
C28_Witness ==
    /\ variant \in Optimized
    /\ reducedMotion
    /\ Packed
    /\ idxTrace[1].beat = beat
    /\ posAttr # << >>
    /\ vs # updateHeartGeometry(variant, vs, originHeart, now, beat)
    /\ animLoop
    /\ RenderRuns
    /\ ~disposed

----------------------------------------------------------------------------
(* The music loop *)

\* C29: the track is started over at its end only while the loop is enabled:
\* once the user has switched the loop off with the L key, no end of the
\* track starts it over.
C29_NoReplayAfterLoopOff ==
    [][ replays' > replays => (audioLoop /\ ~loopOff) ]_vars

----------------------------------------------------------------------------
(* The No button *)

\* C30: a click on No increases noClickCount by exactly one and moves the
\* label to the next entry of noMessages, or leaves it on the last entry;
\* the index of the label is within the list.
C30_NoClickAdvancesByOne ==
    [][ noClickCount' # noClickCount =>
          /\ noClickCount' = noClickCount + 1
          /\ noLabel' = Min(noLabel + 1, NoMessagesLen(variant) - 1)
          /\ noLabel' \in 0..(NoMessagesLen(variant) - 1)
      ]_vars

====
